---- MODULE Spec2Model ----
(***************************************************************************)
(* The anonymizer request of presidio-anonymizer                           *)
(* (presidio_anonymizer/entities/anonymizer_request.py) and the engine     *)
(* that consumes it: input validation, policy binding, policy resolution,  *)
(* conflict resolution of the analyzer results and the ordered rewrite of  *)
(* the text.                                                               *)
(*                                                                         *)
(* Python values are modelled as follows.                                  *)
(*   - a str or a list is a sequence (a str is a sequence of characters);  *)
(*   - a dict is a function whose DOMAIN is the set of keys present;       *)
(*   - the result of dict.get is None (the empty tuple) or Some(v), the    *)
(*     one-element tuple <<v>>;                                            *)
(*   - dicts are objects: a dict lives in `heap` under an address, and     *)
(*     what the program stores and returns is the address, so that two     *)
(*     names of one dict see each other's writes.                          *)
(***************************************************************************)
EXTENDS Integers, Sequences, FiniteSets, TLC

\* ------------------------------------------------------------------ bounds
MaxTextLen == 3
MaxSpans == 2
MaxPolicies == 2
MaxCalls == 2

\* ---------------------------------------------------------- Python values
None == <<>>
Some(v) == <<v>>

\* dict.get(k)
Get(d, k) == IF k \in DOMAIN d THEN Some(d[k]) ELSE None

\* d[k] = v
Put(d, k, v) == [f \in DOMAIN d \cup {k} |-> IF f = k THEN v ELSE d[f]]

\* `not x` for x the result of a dict.get whose value is a str, a list or a
\* dict: None and the empty container are falsy.
Not(o) == o = None \/ DOMAIN o[1] = {}

\* ------------------------------------------------------------ input sets
Alphabet == <<"a", "b", "c", "d", "e", "f", "g", "h">>

\* The texts: the empty one, and the first characters of the alphabet.
Texts == {SubSeq(Alphabet, 1, n) : n \in {0, MaxTextLen - 1, MaxTextLen}}

EntityTypes == {"NAME", "PHONE_NUMBER"}

PolicyKeys == EntityTypes \cup {"DEFAULT"}

\* The kind names a caller may write, in any letter case.
KindNames == {"replace", "Replace", "REPLACE", "mask", "none"}

\* str.lower() on the kind names.
lower(s) ==
    CASE s = "Replace" -> "replace"
      [] s = "REPLACE" -> "replace"
      [] s = "Mask" -> "mask"
      [] s = "None" -> "none"
      [] OTHER -> s

\* The registries of transformations handed to the request (the `anonymizers`
\* argument of __init__): lowercased kind name -> transformation class.
Registries ==
    { [replace |-> "Replace"],
      [replace |-> "Replace", mask |-> "Mask"] }

\* A policy entry as the caller writes it: the kind and the parameters of
\* that kind.
PolicyOf(kind) ==
    CASE kind = "replace" -> [type |-> kind, new_value |-> <<"X">>]
      [] kind = "Replace" -> [type |-> kind, new_value |-> <<"X", "Y", "Z">>]
      [] kind = "REPLACE" -> [type |-> kind, new_value |-> <<"X", "Y">>]
      [] kind = "mask" -> [type |-> kind, masking_char |-> "*",
                           chars_to_mask |-> 2, from_end |-> TRUE]
      [] OTHER -> [type |-> kind]

\* The `anonymizers` dict of a request in insertion order: a sequence of
\* <<key, policy entry>> with distinct keys.
DistinctKeys(m) == \A i, j \in 1..Len(m) : i # j => m[i][1] # m[j][1]

PolicyMapsUpTo(n) ==
    UNION { { m \in [1..k -> PolicyKeys \X {PolicyOf(kd) : kd \in KindNames}] :
                DistinctKeys(m) } : k \in 0..n }

\* An analyzer result as submitted.
SpansOver(starts, ends, types) ==
    [start : starts, end : ends, entity_type : types]

SpanListsUpTo(n, S) == UNION { [1..k -> S] : k \in 0..n }

\* The request dict: each of the three keys is present or absent.  The
\* policy entries are dicts of their own: `anonymizers` holds the key and
\* the heap address of each, entry i at address i.
RequestDict(hasText, text, hasResults, results, hasPolicies, policies) ==
    LET d0 == <<>>
        d1 == IF hasText THEN Put(d0, "text", text) ELSE d0
        d2 == IF hasResults THEN Put(d1, "analyzer_results", results) ELSE d1
        d3 == IF hasPolicies
              THEN Put(d2, "anonymizers",
                       [i \in 1..Len(policies) |-> <<policies[i][1], i>>])
              ELSE d2
    IN  d3

\* -------------------------------------------------------------- the state
VARIABLES
    data,               \* the request dict handed to AnonymizerRequest
    supplied,           \* the policy entries as the caller wrote them
    heap,               \* address -> dict: the policy entries, the default
    anonymizers,        \* self.anonymizers: the registry
    _text,              \* self._text
    _analysis_results,  \* self._analysis_results
    _anonymizers,       \* self._anonymizers: key -> address
    default_anonymizer, \* self.default_anonymizer: None or Some(address)
    pc,                 \* "new", "ready" (constructed) or "failed"
    raised,             \* the exception __init__ raised
    returned,           \* what each get_anonymizer_dto call returned, in order
    calls,              \* number of get_anonymizer_dto calls by the caller
    resolved,           \* the engine's sorted unique results
    pos,                \* the engine's position in `resolved`
    output              \* the engine's working text

vars == <<data, supplied, heap, anonymizers, _text, _analysis_results,
          _anonymizers, default_anonymizer, pc, raised, returned, calls,
          resolved, pos, output>>

\* InvalidParamException(err_msg); the message is kept in its parts.
NoException == [exception |-> "none"]
InvalidParamException(msg) == [exception |-> "InvalidParamException", err_msg |-> msg]

\* The address of the dict built for self.default_anonymizer.
DefaultAddr == 0

\* ------------------------------------------------- request construction
\* __handle_text with the condition `self._text is None`: an empty text passes.
__handle_text_is_none(d) ==
    LET text == Get(d, "text")
    IN  [ _text |-> text,
          raised |-> IF text = None
                     THEN InvalidParamException(<<"Invalid input, text can not be empty">>)
                     ELSE NoException ]

\* __handle_text: self._text = data.get("text"), then `if not self._text`.
__handle_text(d) ==
    LET text == Get(d, "text")
    IN  [ _text |-> text,
          raised |-> IF Not(text)
                     THEN InvalidParamException(<<"Invalid input, text can not be empty">>)
                     ELSE NoException ]

\* AnalyzerResult(content): the analyzer result object of a submitted span.
\* The class is outside this file; the submitted spans carry start, end and
\* entity_type, which it keeps.
AnalyzerResult(content) ==
    [start |-> content.start, end |-> content.end,
     entity_type |-> content.entity_type]

\* AnalyzerResult.validate_position_in_text(text_len), as the design
\* document (4.1) and the tests of the request state it: the offsets must
\* satisfy 0 <= start < end <= text_len.
validate_position_in_text(r, text_len) ==
    IF r.start < 0 \/ r.end > text_len \/ r.start >= r.end
    THEN InvalidParamException(
             <<"Invalid analyzer result, start: ", r.start, " and end: ", r.end,
               ", while text length is only ", text_len, ".">>)
    ELSE NoException

\* The loop of __handle_analyzer_results from element i on: each element is
\* converted, validated and appended; the first failure ends the loop.
RECURSIVE ValidateResults(_, _, _, _)
ValidateResults(analyzer_results, i, text_len, acc) ==
    IF i > Len(analyzer_results)
    THEN [_analysis_results |-> acc, raised |-> NoException]
    ELSE LET analyzer_result == AnalyzerResult(analyzer_results[i])
             e == validate_position_in_text(analyzer_result, text_len)
         IN  IF e # NoException
             THEN [_analysis_results |-> acc, raised |-> e]
             ELSE ValidateResults(analyzer_results, i + 1, text_len,
                                  Append(acc, analyzer_result))

\* __handle_analyzer_results with the condition `analyzer_results is None`: an
\* empty list passes.
__handle_analyzer_results_is_none(d) ==
    LET analyzer_results == Get(d, "analyzer_results")
    IN  IF analyzer_results = None
        THEN [ _analysis_results |-> <<>>,
               raised |-> InvalidParamException(
                   <<"Invalid input, analyzer results can not be empty">>) ]
        ELSE ValidateResults(analyzer_results[1], 1, Len(d.text), <<>>)

\* __handle_analyzer_results with the text length off by one.
__handle_analyzer_results_len_off(d) ==
    LET analyzer_results == Get(d, "analyzer_results")
    IN  IF Not(analyzer_results)
        THEN [ _analysis_results |-> <<>>,
               raised |-> InvalidParamException(
                   <<"Invalid input, analyzer results can not be empty">>) ]
        ELSE ValidateResults(analyzer_results[1], 1, Len(d.text) + 1, <<>>)

__handle_analyzer_results(d) ==
    LET analyzer_results == Get(d, "analyzer_results")
    IN  IF Not(analyzer_results)
        THEN [ _analysis_results |-> <<>>,
               raised |-> InvalidParamException(
                   <<"Invalid input, analyzer results can not be empty">>) ]
        ELSE ValidateResults(analyzer_results[1], 1, Len(d.text), <<>>)

\* __get_anonymizer without the .lower(): the kind is looked up as written.
__get_anonymizer_as_written(anonymizer, registry) ==
    LET anonymizer_type == anonymizer.type
        found == Get(registry, anonymizer_type)
    IN  IF found = None
        THEN [ anonymizer |-> None,
               raised |-> InvalidParamException(
                   <<"Invalid anonymizer class '", anonymizer_type, "'.">>) ]
        ELSE [anonymizer |-> found, raised |-> NoException]

\* __get_anonymizer: the class registered under the lowercased kind.
__get_anonymizer(anonymizer, registry) ==
    LET anonymizer_type == lower(anonymizer.type)
        found == Get(registry, anonymizer_type)
    IN  IF found = None
        THEN [ anonymizer |-> None,
               raised |-> InvalidParamException(
                   <<"Invalid anonymizer class '", anonymizer_type, "'.">>) ]
        ELSE [anonymizer |-> found, raised |-> NoException]

\* The loop of __handle_anonymizers from entry i on: the class is written
\* into the entry (the caller's dict) and the entry is stored under its key.
RECURSIVE BindAnonymizers(_, _, _, _, _)
BindAnonymizers(items, i, registry, h, map) ==
    IF i > Len(items)
    THEN [heap |-> h, _anonymizers |-> map, raised |-> NoException]
    ELSE LET key == items[i][1]
             anonymizer_dto == items[i][2]
             got == __get_anonymizer(h[anonymizer_dto], registry)
         IN  IF got.raised # NoException
             THEN [heap |-> h, _anonymizers |-> map, raised |-> got.raised]
             ELSE BindAnonymizers(
                      items, i + 1, registry,
                      [h EXCEPT ![anonymizer_dto] =
                           Put(@, "anonymizer", got.anonymizer[1])],
                      Put(map, key, anonymizer_dto))

__handle_anonymizers(d, registry, h) ==
    LET items == Get(d, "anonymizers")
    IN  IF items # None
        THEN BindAnonymizers(items[1], 1, registry, h, <<>>)
        ELSE [heap |-> h, _anonymizers |-> <<>>, raised |-> NoException]

\* __validate_and_insert_input: the three handlers in order; an exception
\* of one skips the ones after it.
__validate_and_insert_input(d, registry, h) ==
    LET t == __handle_text(d)
        r == __handle_analyzer_results(d)
        a == __handle_anonymizers(d, registry, h)
    IN  IF t.raised # NoException
        THEN [ _text |-> t._text, _analysis_results |-> <<>>,
               _anonymizers |-> <<>>, heap |-> h, raised |-> t.raised ]
        ELSE IF r.raised # NoException
        THEN [ _text |-> t._text, _analysis_results |-> r._analysis_results,
               _anonymizers |-> <<>>, heap |-> h, raised |-> r.raised ]
        ELSE [ _text |-> t._text, _analysis_results |-> r._analysis_results,
               _anonymizers |-> a._anonymizers, heap |-> a.heap,
               raised |-> a.raised ]

\* The dict __init__ builds for self.default_anonymizer.
BuiltinDefault(registry) == [type |-> "replace", anonymizer |-> registry["replace"]]

\* AnonymizerRequest.__init__(data, anonymizers).
Construct ==
    /\ pc = "new"
    /\ LET v == __validate_and_insert_input(data, anonymizers, heap)
       IN  /\ _text' = v._text
           /\ _analysis_results' = v._analysis_results
           /\ _anonymizers' = v._anonymizers
           /\ raised' = v.raised
           /\ IF v.raised = NoException
              THEN /\ heap' = Put(v.heap, DefaultAddr, BuiltinDefault(anonymizers))
                   /\ default_anonymizer' = Some(DefaultAddr)
                   /\ pc' = "ready"
              ELSE /\ heap' = v.heap
                   /\ default_anonymizer' = None
                   /\ pc' = "failed"
    /\ UNCHANGED <<data, supplied, anonymizers, returned, calls,
                   resolved, pos, output>>

\* ---------------------------------------------------- policy resolution
\* `not anonymizer_dto` for the result of self._anonymizers.get: None, or a
\* dict with no key.
NotDto(o, h) == o = None \/ DOMAIN h[o[1]] = {}

\* The pick with the two lookups swapped: "DEFAULT" before the label.
PickAnonymizerDto_default_first(map, dflt, h, entity_type) ==
    LET exact == Get(map, entity_type)
        wildcard == Get(map, "DEFAULT")
    IN  IF ~NotDto(wildcard, h) THEN wildcard[1]
        ELSE IF ~NotDto(exact, h) THEN exact[1]
        ELSE dflt[1]

\* The dict get_anonymizer_dto picks for entity_type: the entry stored under
\* the label, else the entry stored under "DEFAULT", else the built-in one.
PickAnonymizerDto(map, dflt, h, entity_type) ==
    LET exact == Get(map, entity_type)
        wildcard == Get(map, "DEFAULT")
    IN  IF ~NotDto(exact, h) THEN exact[1]
        ELSE IF ~NotDto(wildcard, h) THEN wildcard[1]
        ELSE dflt[1]

\* The tag written under the label itself: anonymizer_dto[entity_type] =
\* entity_type.
TagAnonymizerDto_under_label(h, dto, entity_type) ==
    [h EXCEPT ![dto] = Put(@, entity_type, entity_type)]

\* anonymizer_dto["entity_type"] = entity_type: the write goes to the dict
\* that was picked, whoever else holds it.
TagAnonymizerDto(h, dto, entity_type) ==
    [h EXCEPT ![dto] = Put(@, "entity_type", entity_type)]

\* The record of one call: the label asked for, the dict returned (its
\* address) and what that dict held when the call returned.
Returned(entity_type, dto, h) ==
    [entity_type |-> entity_type, dto |-> dto, value |-> h[dto]]

\* get_anonymizer_dto(entity_type), called by the holder of the request.
get_anonymizer_dto(entity_type) ==
    /\ pc = "ready"
    /\ calls < MaxCalls
    /\ LET dto == PickAnonymizerDto(_anonymizers, default_anonymizer, heap, entity_type)
           h == TagAnonymizerDto(heap, dto, entity_type)
       IN  /\ heap' = h
           /\ returned' = Append(returned, Returned(entity_type, dto, h))
    /\ calls' = calls + 1
    /\ UNCHANGED <<data, supplied, anonymizers, _text, _analysis_results,
                   _anonymizers, default_anonymizer, pc, raised,
                   resolved, pos, output>>

\* ------------------------------------------------- conflict resolution
\* AnalyzerResults and AnonymizerEngine are outside this file; they follow
\* the design document (4.3, 4.4).
\* The sort order of the conflict resolver: end descending, then start
\* ascending.
SortsBefore(a, b) == a.end > b.end \/ (a.end = b.end /\ a.start < b.start)

\* Insertion of r into a sorted sequence, behind the elements it does not
\* sort before (a stable sort: ties keep the order of submission).
RECURSIVE InsertSorted(_, _)
InsertSorted(sorted, r) ==
    IF sorted = <<>> THEN <<r>>
    ELSE IF SortsBefore(r, Head(sorted)) THEN <<r>> \o sorted
    ELSE <<Head(sorted)>> \o InsertSorted(Tail(sorted), r)

RECURSIVE SortResults(_)
SortResults(results) ==
    IF results = <<>> THEN <<>>
    ELSE InsertSorted(SortResults(SubSeq(results, 1, Len(results) - 1)),
                      results[Len(results)])

\* The test that only sees a range inside another one.
Intersects_contained_only(a, b) ==
    \/ (a.start <= b.start /\ b.end <= a.end)
    \/ (b.start <= a.start /\ a.end <= b.end)

\* Two [start, end) ranges intersect.
Intersects(a, b) == a.start < b.end /\ b.start < a.end

\* The walk over the sorted sequence: a result is accepted unless its range
\* intersects the range of a result accepted before it.
RECURSIVE RemoveConflicts(_, _)
RemoveConflicts(sorted, accepted) ==
    IF sorted = <<>> THEN accepted
    ELSE IF \E k \in 1..Len(accepted) : Intersects(Head(sorted), accepted[k])
    THEN RemoveConflicts(Tail(sorted), accepted)
    ELSE RemoveConflicts(Tail(sorted), Append(accepted, Head(sorted)))

\* AnalyzerResults.to_sorted_unique_results(reverse=True).
to_sorted_unique_results(results) == RemoveConflicts(SortResults(results), <<>>)

\* --------------------------------------------------------- the rewrite
\* What Replace returns when the policy carries no new_value.
Placeholder == <<"A", "N", "O", "N", "Y", "M", "I", "Z", "E", "D">>

\* Replace.anonymize: the new value, whatever the original text.
Replace(original, params) ==
    IF "new_value" \in DOMAIN params THEN params.new_value ELSE Placeholder

\* Mask.anonymize: the first or last chars_to_mask characters of the
\* original become masking_char; a count beyond the length masks it all.
Mask(original, params) ==
    LET n == IF params.chars_to_mask > Len(original) THEN Len(original)
             ELSE IF params.chars_to_mask < 0 THEN 0
             ELSE params.chars_to_mask
        masked(i) == IF params.from_end THEN i > Len(original) - n ELSE i <= n
    IN  [i \in 1..Len(original) |->
            IF masked(i) THEN params.masking_char ELSE original[i]]

\* The transformation bound to a policy, applied to the original substring.
Transform(dto, original) ==
    IF dto.anonymizer = "Mask" THEN Mask(original, dto) ELSE Replace(original, dto)

\* text[start:end] for 0 <= start, 0 <= end: the bounds are cut to the length.
Slice(text, start, end) ==
    LET lo == IF start > Len(text) THEN Len(text) ELSE start
        hi == IF end > Len(text) THEN Len(text) ELSE end
    IN  IF lo >= hi THEN <<>> ELSE SubSeq(text, lo + 1, hi)

\* text[:start] + replacement + text[end:]
Splice(text, start, end, replacement) ==
    Slice(text, 0, start) \o replacement \o Slice(text, end, Len(text))

\* The resolved results walked from the lowest offset up.
RECURSIVE Reversed(_)
Reversed(seq) ==
    IF seq = <<>> THEN <<>> ELSE Append(Reversed(Tail(seq)), Head(seq))

RewriteOrder_ascending(results) == Reversed(to_sorted_unique_results(results))

\* The order in which the engine walks the resolved results.
RewriteOrder(results) == to_sorted_unique_results(results)

\* AnonymizerEngine.anonymize, up to its loop: the working text is the
\* request's text, the results are the sorted unique ones.
Anonymize ==
    /\ pc = "ready"
    /\ resolved' = RewriteOrder(_analysis_results)
    /\ output' = _text[1]
    /\ pos' = 1
    /\ pc' = "rewriting"
    /\ UNCHANGED <<data, supplied, heap, anonymizers, _text, _analysis_results,
                   _anonymizers, default_anonymizer, raised, returned, calls>>

\* One round of the loop: the policy of the result's label is resolved, its
\* transformation gets the working text's [start, end) and the outcome is
\* spliced in.
AnonymizeStep ==
    /\ pc = "rewriting"
    /\ pos <= Len(resolved)
    /\ LET r == resolved[pos]
           dto == PickAnonymizerDto(_anonymizers, default_anonymizer, heap,
                                    r.entity_type)
           h == TagAnonymizerDto(heap, dto, r.entity_type)
           replacement == Transform(h[dto], Slice(output, r.start, r.end))
       IN  /\ heap' = h
           /\ returned' = Append(returned, Returned(r.entity_type, dto, h))
           /\ output' = Splice(output, r.start, r.end, replacement)
    /\ pos' = pos + 1
    /\ UNCHANGED <<data, supplied, anonymizers, _text, _analysis_results,
                   _anonymizers, default_anonymizer, pc, raised, calls, resolved>>

\* The loop is over: anonymize returns the working text.
AnonymizeDone ==
    /\ pc = "rewriting"
    /\ pos > Len(resolved)
    /\ pc' = "done"
    /\ UNCHANGED <<data, supplied, heap, anonymizers, _text, _analysis_results,
                   _anonymizers, default_anonymizer, raised, returned, calls,
                   resolved, pos, output>>

\* ------------------------------------------------------ specifications
InitWith(texts, spanLists, policyMaps) ==
    /\ \E hasText \in BOOLEAN, text \in texts,
          hasResults \in BOOLEAN, results \in spanLists,
          hasPolicies \in BOOLEAN, policies \in policyMaps :
         /\ hasText \/ text = <<>>
         /\ hasResults \/ results = <<>>
         /\ hasPolicies \/ policies = <<>>
         /\ data = RequestDict(hasText, text, hasResults, results,
                               hasPolicies, policies)
         /\ supplied = [i \in 1..Len(policies) |-> policies[i][2]]
         /\ heap = [i \in 1..Len(policies) |-> policies[i][2]]
    /\ anonymizers \in Registries
    /\ _text = None
    /\ _analysis_results = <<>>
    /\ _anonymizers = <<>>
    /\ default_anonymizer = None
    /\ pc = "new"
    /\ raised = NoException
    /\ returned = <<>>
    /\ calls = 0
    /\ resolved = <<>>
    /\ pos = 0
    /\ output = <<>>

\* Requests of every shape of text and analyzer results, the offsets from
\* before the text to behind it; without policies, or with one of an
\* unknown kind.
Init ==
    /\ InitWith(Texts,
                SpanListsUpTo(MaxSpans,
                              SpansOver(-1..(MaxTextLen + 1), 0..(MaxTextLen + 1),
                                        {"NAME"})),
                { <<>>, << <<"NAME", PolicyOf("none")>> >> })
    /\ "mask" \in DOMAIN anonymizers

\* Requests with a valid text and one valid span, of every policy map and
\* both registries.
InitPolicy ==
    InitWith({SubSeq(Alphabet, 1, MaxTextLen)},
             { << [start |-> 0, end |-> 1, entity_type |-> t] >> : t \in EntityTypes },
             PolicyMapsUpTo(MaxPolicies))

\* Valid requests: every list of spans inside the text, under a policy map
\* that shortens every longer span and one that lengthens or masks.
ValidSpans ==
    { r \in SpansOver(0..MaxTextLen, 0..MaxTextLen, EntityTypes) : r.start < r.end }

InitEngine ==
    /\ InitWith({SubSeq(Alphabet, 1, MaxTextLen)},
                SpanListsUpTo(MaxSpans, ValidSpans),
                { << <<"DEFAULT", PolicyOf("replace")>> >>,
                  << <<"NAME", PolicyOf("Replace")>>,
                     <<"PHONE_NUMBER", PolicyOf("mask")>> >> })
    /\ "mask" \in DOMAIN anonymizers

Next ==
    \/ Construct
    \/ \E entity_type \in EntityTypes : get_anonymizer_dto(entity_type)
    \/ Anonymize
    \/ AnonymizeStep
    \/ AnonymizeDone

Spec == Init /\ [][Next]_vars

SpecPolicy == InitPolicy /\ [][Next]_vars

SpecEngine == InitEngine /\ [][Next]_vars

\* ============================================================ properties
\* The request as submitted.
SubmittedText == Get(data, "text")
SubmittedResults == Get(data, "analyzer_results")
Constructed == pc \in {"ready", "rewriting", "done"}

EmptyText == InvalidParamException(<<"Invalid input, text can not be empty">>)
EmptySpans == InvalidParamException(<<"Invalid input, analyzer results can not be empty">>)
OutOfBounds(S, E, L) ==
    InvalidParamException(<<"Invalid analyzer result, start: ", S, " and end: ", E,
                            ", while text length is only ", L, ".">>)
UnknownPolicyKind(kind) ==
    InvalidParamException(<<"Invalid anonymizer class '", kind, "'.">>)

\* C1: a request whose text is absent or empty fails with 'Invalid input,
\* text can not be empty', whatever its analyzer results and policies are.
C1_EmptyTextFailsFirst ==
    (pc # "new" /\ Not(SubmittedText)) => (pc = "failed" /\ raised = EmptyText)

\* C1 witness: a request without text but with spans and an unknown policy
\* kind has failed.
C1_Witness ==
    /\ pc = "failed"
    /\ Not(SubmittedText)
    /\ ~Not(SubmittedResults)
    /\ "anonymizers" \in DOMAIN data
    /\ \E i \in DOMAIN supplied : supplied[i].type = "none"

\* C2 as claimed: absent or empty analyzer results fail with 'Invalid input,
\* analyzer results can not be empty' for every value of the text.
C2_EmptySpansWhateverText ==
    (pc # "new" /\ Not(SubmittedResults)) => (pc = "failed" /\ raised = EmptySpans)

\* C2 as amended: absent or empty analyzer results fail with 'Invalid input,
\* analyzer results can not be empty' when the text is present and not
\* empty, and with 'Invalid input, text can not be empty' otherwise.
C2_EmptySpansAfterText ==
    (pc # "new" /\ Not(SubmittedResults)) =>
        /\ pc = "failed"
        /\ raised = IF Not(SubmittedText) THEN EmptyText ELSE EmptySpans

\* C2 witness: a request with a text and an empty list of results has failed.
C2_Witness ==
    /\ pc = "failed"
    /\ ~Not(SubmittedText)
    /\ SubmittedResults = Some(<<>>)
    /\ raised = EmptySpans

\* A submitted span that is out of the bounds of a text of length L.
Offending(r, L) == r.start < 0 \/ r.end > L \/ r.start >= r.end

SubmittedPolicies == Get(data, "anonymizers")
SubmittedKeys ==
    IF SubmittedPolicies = None THEN {}
    ELSE {SubmittedPolicies[1][i][1] : i \in 1..Len(SubmittedPolicies[1])}
AddressOf(key) ==
    CHOOSE i \in 1..Len(SubmittedPolicies[1]) : SubmittedPolicies[1][i][1] = key

\* What a call for `label` has to return: the address and the kind, class and
\* parameters of the policy.
ExpectedPolicy(label) ==
    IF label \in SubmittedKeys
    THEN [dto |-> AddressOf(label),
          policy |-> Put(supplied[AddressOf(label)], "anonymizer",
                         anonymizers[lower(supplied[AddressOf(label)].type)])]
    ELSE IF "DEFAULT" \in SubmittedKeys
    THEN [dto |-> AddressOf("DEFAULT"),
          policy |-> Put(supplied[AddressOf("DEFAULT")], "anonymizer",
                         anonymizers[lower(supplied[AddressOf("DEFAULT")].type)])]
    ELSE [dto |-> DefaultAddr,
          policy |-> [type |-> "replace", anonymizer |-> "Replace"]]

\* C4: every call get_anonymizer_dto(label) returned the policy stored under
\* the label, else the one stored under "DEFAULT", else the built-in replace
\* policy, tagged with entity_type = label.
C4_LookupOrder ==
    \A n \in 1..Len(returned) :
        LET call == returned[n]
            want == ExpectedPolicy(call.entity_type)
        IN  /\ call.dto = want.dto
            /\ call.value = Put(want.policy, "entity_type", call.entity_type)

\* C4 witness: one label was resolved by its own entry and another by the
\* "DEFAULT" entry.
C4_Witness ==
    \E n, m \in 1..Len(returned) :
        /\ returned[n].entity_type \in SubmittedKeys \ {"DEFAULT"}
        /\ returned[m].entity_type \notin SubmittedKeys
        /\ "DEFAULT" \in SubmittedKeys
        /\ returned[m].dto = AddressOf("DEFAULT")

\* C5: every entry of the policy map is looked up at construction: the first
\* entry whose lowercased kind is not registered fails the request with
\* 'Invalid anonymizer class '<lowercased kind>'.'; otherwise every entry is
\* bound to the class registered under its lowercased kind, 'replace' in any
\* letter case to the same class.
C5_KindsValidated ==
    (pc # "new" /\ SubmittedPolicies # None) =>
        LET unknown == {i \in DOMAIN supplied :
                            lower(supplied[i].type) \notin DOMAIN anonymizers}
        IN  IF unknown # {}
            THEN LET first == CHOOSE i \in unknown : \A j \in unknown : i <= j
                 IN  /\ pc = "failed"
                     /\ raised = UnknownPolicyKind(lower(supplied[first].type))
            ELSE /\ Constructed
                 /\ \A i \in DOMAIN supplied :
                        /\ heap[i].anonymizer = anonymizers[lower(supplied[i].type)]
                        /\ supplied[i].type \in {"replace", "Replace", "REPLACE"}
                               => heap[i].anonymizer = anonymizers["replace"]

\* C5 witness: an entry written 'Replace' is bound next to one written
\* 'REPLACE', under keys no span refers to.
C5_Witness ==
    /\ Constructed
    /\ \E i, j \in DOMAIN supplied :
           /\ supplied[i].type = "Replace"
           /\ supplied[j].type = "REPLACE"
           /\ heap[i].anonymizer = heap[j].anonymizer
           /\ \A k \in 1..Len(_analysis_results) :
                  _analysis_results[k].entity_type \notin
                      {SubmittedPolicies[1][i][1], SubmittedPolicies[1][j][1]}

\* The engine has resolved the spans of the request.
Resolving == pc \in {"rewriting", "done"}

Disjoint(a, b) == a.end <= b.start \/ b.end <= a.start

Accepted == {resolved[k] : k \in 1..Len(resolved)}

\* C6: the resolved spans are pairwise disjoint and ordered by descending
\* end; a validated span is left out exactly when its range intersects the
\* range of an accepted span that is not behind it in the sort order (end
\* descending, then start ascending).
C6_ResolvedDisjoint ==
    Resolving =>
        /\ \A i, j \in 1..Len(resolved) :
               i < j => /\ Disjoint(resolved[i], resolved[j])
                        /\ resolved[i].end > resolved[j].end
        /\ \A i \in 1..Len(_analysis_results) :
               LET r == _analysis_results[i]
               IN  r \notin Accepted <=>
                       \E a \in Accepted :
                           /\ a # r
                           /\ ~Disjoint(a, r)
                           /\ a.end > r.end \/ (a.end = r.end /\ a.start <= r.start)
        /\ \A a \in Accepted :
               \E i \in 1..Len(_analysis_results) : _analysis_results[i] = a

\* C6 witness: of two spans, one inside the other, the outer one alone is
\* accepted.
C6_Witness ==
    /\ Resolving
    /\ Len(_analysis_results) = 2
    /\ Len(resolved) = 1
    /\ \E i, j \in 1..2 :
           /\ _analysis_results[i].start < _analysis_results[j].start
           /\ _analysis_results[j].end <= _analysis_results[i].end
           /\ resolved[1] = _analysis_results[i]

\* The replacement of an accepted span: its policy's transformation of the
\* original text's [start, end).
ReplacementOf(r) ==
    Transform(heap[PickAnonymizerDto(_anonymizers, default_anonymizer, heap,
                                     r.entity_type)],
              SubSeq(_text[1], r.start + 1, r.end))

\* The original text from offset p on, with each accepted span's region
\* replaced and every other character kept.
RECURSIVE RewrittenFrom(_)
RewrittenFrom(p) ==
    IF p >= Len(_text[1]) THEN <<>>
    ELSE IF \E a \in Accepted : a.start = p
    THEN LET a == CHOOSE x \in Accepted : x.start = p
         IN  ReplacementOf(a) \o RewrittenFrom(a.end)
    ELSE <<_text[1][p + 1]>> \o RewrittenFrom(p + 1)

SpanLength(r) == r.end - r.start
ReplacementLength(r) == Len(ReplacementOf(r))

\* The sums over the first k resolved spans.
RECURSIVE SpanLengths(_)
SpanLengths(k) ==
    IF k = 0 THEN 0 ELSE SpanLength(resolved[k]) + SpanLengths(k - 1)

RECURSIVE ReplacementLengths(_)
ReplacementLengths(k) ==
    IF k = 0 THEN 0 ELSE ReplacementLength(resolved[k]) + ReplacementLengths(k - 1)

\* C7: while the resolved spans are spliced in one at a time, the region of
\* every span not yet processed still holds the original text[start:end];
\* the final text is the original with each accepted region replaced and all
\* else unchanged, of length original - accepted lengths + replacement
\* lengths.
C7_OffsetStability ==
    /\ pc = "rewriting" =>
           \A k \in pos..Len(resolved) :
               /\ resolved[k].end <= Len(output)
               /\ SubSeq(output, resolved[k].start + 1, resolved[k].end)
                      = SubSeq(_text[1], resolved[k].start + 1, resolved[k].end)
    /\ pc = "done" =>
           /\ output = RewrittenFrom(0)
           /\ Len(output) = Len(_text[1]) - SpanLengths(Len(resolved))
                                + ReplacementLengths(Len(resolved))

\* C7 witness: two spans were rewritten, the first by a replacement of
\* another length than its region.
C7_Witness ==
    /\ pc = "done"
    /\ Len(resolved) = 2
    /\ ReplacementLength(resolved[1]) # SpanLength(resolved[1])
    /\ Len(output) # Len(_text[1])

\* C8: two calls of get_anonymizer_dto for one label returned the same dict
\* with the same content, whatever was resolved before or between them.
C8_ResolutionIdempotent ==
    \A i, j \in 1..Len(returned) :
        returned[i].entity_type = returned[j].entity_type =>
            returned[i] = returned[j]

\* C8 witness: a label was resolved twice, and between the two another label
\* was resolved to the same dict.
C8_Witness ==
    \E i, k, j \in 1..Len(returned) :
        /\ i < k
        /\ k < j
        /\ returned[i].entity_type = returned[j].entity_type
        /\ returned[k].entity_type # returned[i].entity_type
        /\ returned[k].dto = returned[i].dto

\* C9: the policy entries the caller supplied and the built-in default
\* policy are never changed, neither by construction nor by resolution.
C9_PoliciesImmutable ==
    /\ \A i \in DOMAIN supplied : heap[i] = supplied[i]
    /\ DefaultAddr \in DOMAIN heap =>
           heap[DefaultAddr] = [type |-> "replace", anonymizer |-> "Replace"]

\* C10: every policy returned so far still carries the label it was
\* resolved for.
C10_ReturnedKeepLabel ==
    \A n \in 1..Len(returned) :
        heap[returned[n].dto].entity_type = returned[n].entity_type

====
